---- MODULE Spec2Model ----
(***************************************************************************)
(* Model of zapi_webhook/views.py: the URL-fallback forwarder               *)
(* try_urls_with_cache, the Django cache it shares between calls, and the   *)
(* HTTP endpoints it requests.                                              *)
(*                                                                          *)
(* A Python str is a sequence of one-character strings; an optional value   *)
(* (None or a value) is a sequence of length at most one.                   *)
(***************************************************************************)
EXTENDS Integers, Sequences, FiniteSets, TLC

VARIABLES cache, call, health, settings, hist, request, db

vars == <<cache, call, health, settings, hist, request, db>>

\* What the forwarder's own steps leave alone.
others == <<settings, hist, request, db>>

None == <<>>

Some(v) == <<v>>

\* ------------------------------------------------------------------ bounds

\* The longest endpoint string made of arbitrary segments, in segments.
MaxSegments == 2

\* The longest endpoint string made of well-formed endpoints, in endpoints.
MaxEndpoints == 3

\* ------------------------------------------------------------- str methods

Whitespace == {" ", "\t"}

HTTP == <<"h", "t", "t", "p", ":", "/", "/">>

HTTPS == <<"h", "t", "t", "p", "s", ":", "/", "/">>

FTP == <<"f", "t", "p", ":", "/", "/">>

\* The index of the first comma of s, 0 when s has none.
find_comma(s) ==
    IF \E i \in 1..Len(s) : s[i] = ","
    THEN CHOOSE i \in 1..Len(s) : s[i] = "," /\ \A j \in 1..(i - 1) : s[j] # ","
    ELSE 0

RECURSIVE split(_)
\* str.split(","): the segments between the commas, blank ones kept.
split(s) ==
    LET i == find_comma(s)
    IN  IF i = 0
        THEN <<s>>
        ELSE <<SubSeq(s, 1, i - 1)>> \o split(SubSeq(s, i + 1, Len(s)))

RECURSIVE lstrip(_)
lstrip(s) == IF s # <<>> /\ Head(s) \in Whitespace THEN lstrip(Tail(s)) ELSE s

RECURSIVE rstrip(_)
rstrip(s) ==
    IF s # <<>> /\ s[Len(s)] \in Whitespace
    THEN rstrip(SubSeq(s, 1, Len(s) - 1))
    ELSE s

\* str.strip(): leading and trailing whitespace removed.
strip(s) == rstrip(lstrip(s))

startswith(s, prefix) ==
    Len(s) >= Len(prefix) /\ SubSeq(s, 1, Len(prefix)) = prefix

RECURSIVE Filter(_, _)
\* [x for x in seq if x not in drop]
Filter(seq, drop) ==
    IF seq = <<>>
    THEN <<>>
    ELSE (IF Head(seq) \in drop THEN <<>> ELSE <<Head(seq)>>) \o Filter(Tail(seq), drop)

Range(seq) == {seq[i] : i \in 1..Len(seq)}

\* ------------------------------------------------- try_urls_with_cache, pure

\* Faulty variant: the `if url.strip()` filter is missing.
stripped_urls_unfiltered(urls_string) ==
    LET segs == split(urls_string)
    IN  [i \in 1..Len(segs) |-> strip(segs[i])]

\* urls = [url.strip() for url in urls_string.split(",") if url.strip()]
stripped_urls(urls_string) ==
    LET segs == split(urls_string)
    IN  Filter([i \in 1..Len(segs) |-> strip(segs[i])], {<<>>})

\* url if url.startswith(("http://", "https://")) else f"http://{url}"
add_scheme(url) ==
    IF startswith(url, HTTP) \/ startswith(url, HTTPS) THEN url ELSE HTTP \o url

parse_urls(urls_string) ==
    LET urls == stripped_urls(urls_string)
    IN  [i \in 1..Len(urls) |-> add_scheme(urls[i])]

\* Faulty variant: the entry of the default key, whatever the caller passed.
cache_full_key_default(cache_key) == "url_fallback_" \o "default"

\* cache_full_key = f"url_fallback_{cache_key}"
cache_full_key(cache_key) == "url_fallback_" \o cache_key

\* cache.get(key): None when the store has no entry for the key.
cache_get(store, key) == IF key \in DOMAIN store THEN Some(store[key]) ELSE None

\* cache.set(key, value, timeout)
cache_set(store, key, value) ==
    [k \in DOMAIN store \cup {key} |-> IF k = key THEN value ELSE store[k]]

\* cache.delete(key)
cache_delete(store, key) == [k \in DOMAIN store \ {key} |-> store[k]]

\* Faulty variant: the cache is not consulted for the order.
urls_to_try_configured(urls, cached_url) == urls

\* Faulty variant: the cached URL goes first without the `cached_url in urls` test.
urls_to_try_unchecked(urls, cached_url) ==
    IF cached_url # None
    THEN <<cached_url[1]>> \o Filter(urls, {cached_url[1]})
    ELSE urls

\* Faulty variant: the URLs after the cached one are all of urls, the cached one too.
urls_to_try_repeating(urls, cached_url) ==
    IF cached_url # None /\ cached_url[1] \in Range(urls)
    THEN <<cached_url[1]>> \o urls
    ELSE urls

\* The attempt order: the cached URL first when it is one of urls, then the
\* other URLs; urls itself otherwise.
urls_to_try(urls, cached_url) ==
    IF cached_url # None /\ cached_url[1] \in Range(urls)
    THEN <<cached_url[1]>> \o Filter(urls, {cached_url[1]})
    ELSE urls

\* Faulty variant: only 2xx counts as success.
is_success_2xx(status_code) == 200 <= status_code /\ status_code < 300

\* Faulty variant: the upper end of the band is included.
is_success_inclusive(status_code) == 200 <= status_code /\ status_code <= 400

\* 200 <= response.status_code < 400
is_success(status_code) == 200 <= status_code /\ status_code < 400

\* Faulty variant: only an error status is recorded; a transport error leaves
\* last_exception as it was.
failure_exception_status_only(outcome, url, attempt, last_exception) ==
    IF outcome.raises = ""
    THEN Some([type |-> "HTTPError", url |-> url,
               status_code |-> outcome.status_code, attempt |-> attempt])
    ELSE last_exception

\* Faulty variant: the first failure's exception is kept, later ones are dropped.
failure_exception_first(outcome, url, attempt, last_exception) ==
    IF last_exception # None
    THEN last_exception
    ELSE Some([type |-> IF outcome.raises = "" THEN "HTTPError" ELSE outcome.raises,
               url |-> url,
               status_code |-> outcome.status_code,
               attempt |-> attempt])

\* A failed attempt's exception: last_exception after the failure branch taken.
\*   HTTPError(f"HTTP {status}", response=response)  for an error status,
\*   Timeout(f"Timeout ao acessar {url}")            for a timeout,
\*   e itself                                        for the other two.
\* attempt tells the instances apart: the position in the attempt order.
failure_exception(outcome, url, attempt, last_exception) ==
    Some([type |-> IF outcome.raises = "" THEN "HTTPError" ELSE outcome.raises,
          url |-> url,
          status_code |-> outcome.status_code,
          attempt |-> attempt])

\* Faulty variant: the successful URL is never saved.
success_cache_ops_never(key, url, cached_url) == <<>>

\* Faulty variant: cache.set on every success.
success_cache_ops_always(key, url, cached_url) ==
    <<[op |-> "set", key |-> key, value |-> Some(url)]>>

\* if url != cached_url: cache.set(cache_full_key, url, cache_timeout)
success_cache_ops(key, url, cached_url) ==
    IF Some(url) # cached_url
    THEN <<[op |-> "set", key |-> key, value |-> Some(url)]>>
    ELSE <<>>

\* Faulty variant: the entry is left in place when every URL failed.
exhausted_cache_ops_never(key, cached_url) == <<>>

\* if cached_url: cache.delete(cache_full_key)
exhausted_cache_ops(key, cached_url) ==
    IF cached_url # None
    THEN <<[op |-> "delete", key |-> key, value |-> None]>>
    ELSE <<>>

\* raise last_exception, or the aggregate RequestException when there is none.
exhausted_exception(last_exception) ==
    IF last_exception # None
    THEN last_exception
    ELSE Some([type |-> "RequestException", url |-> <<>>, status_code |-> 0,
               attempt |-> 0])

\* Faulty variant: `return response` sits inside `if url != cached_url`.
after_attempt_return_in_if(success, url, cached_url) ==
    IF success /\ Some(url) # cached_url THEN "returned" ELSE "loop"

\* Where the loop goes after an attempt: `return response` on success, the
\* next iteration otherwise.
after_attempt(success, url, cached_url) == IF success THEN "returned" ELSE "loop"

\* Faulty variant: the attempt order is worked out again from the cache before
\* every request.
next_url_relookup(frame, store) ==
    urls_to_try(frame.urls,
                cache_get(store, cache_full_key(frame.cache_key)))[frame.i]

\* for url in urls_to_try: the list was built before the loop (lines 147-156)
\* and the cache is not read again.
next_url(frame, store) == frame.urls_to_try[frame.i]

RECURSIVE apply_ops(_, _)
\* The store after the cache operations ops, in order.
apply_ops(store, ops) ==
    IF ops = <<>>
    THEN store
    ELSE LET o == Head(ops)
         IN  apply_ops(
                 CASE o.op = "set" -> cache_set(store, o.key, o.value[1])
                   [] o.op = "delete" -> cache_delete(store, o.key)
                   [] OTHER -> store,
                 Tail(ops))

\* ------------------------------------------------------------------ inputs

Procs == {1, 2}

\* The process of the specifications in which calls do not overlap.
SeqProcs == {1}

HostA == <<"a">>

HostB == <<"b">>

HostC == <<"c">>

\* The segments configured endpoint strings are made of: blank, whitespace,
\* bare, padded, with http://, with https://, with another scheme.
Segments ==
    { <<>>, <<" ">>, HostA, <<" ">> \o HostB \o <<"\t">>, HTTP \o HostA,
      HTTPS \o HostB, FTP \o HostA }

RECURSIVE join(_)
\* ",".join(segs)
join(segs) ==
    IF Len(segs) = 0 THEN <<>>
    ELSE IF Len(segs) = 1 THEN segs[1]
    ELSE segs[1] \o <<",">> \o join(Tail(segs))

\* Well-formed endpoints: three bare hosts, and one of them with its scheme.
Endpoints == { HostA, HostB, HostC, HTTP \o HostA }

\* The strings of 1 to n segments of S, joined by commas.
Joined(S, n) == {join(segs) : segs \in UNION {[1..m -> S] : m \in 1..n}}

\* The values of urls_string: settings.EXTERNAL_SYSTEM_URL and the like.
ConfigStrings == Joined(Segments, MaxSegments) \cup Joined(Endpoints, MaxEndpoints)

CacheKeys == {"external_system"}

StatusCodes == {199, 200, 399, 400, 404, 500}

TransportErrors == {"Timeout", "ConnectionError", "RequestException"}

\* What requests.request can do: answer with a status, or raise.
Outcomes ==
    {[raises |-> "", status_code |-> s] : s \in StatusCodes}
        \cup {[raises |-> t, status_code |-> 0] : t \in TransportErrors}

\* The outcomes an endpoint can have now: the one health fixes for it, any
\* when health does not name it.
endpoint_outcomes(url) ==
    IF url \in DOMAIN health THEN {health[url]} ELSE Outcomes

\* The success band of the specification, [200, 400).
InSuccessBand(outcome) ==
    outcome.raises = "" /\ outcome.status_code \in 200..399

\* ------------------------------------------------------------------- state

\* cache: the Django cache, the entries it holds (an absent key has none).
\* health: the endpoints whose outcome is fixed, and that outcome.
\* call[p]: the frame of p's call of try_urls_with_cache: its locals, and
\*   pc          idle | loop | returned | raised
\*   requests    the URLs given to requests.request so far, in order
\*   answers     per request, whether the answer was in the success band
\*   outcome     the outcome of the latest request
\*   cache_ops   the cache operations the call has issued, in order
Idle ==
    [pc |-> "idle", urls_string |-> <<>>, cache_key |-> "", urls |-> <<>>,
     cached_url |-> None, urls_to_try |-> <<>>, i |-> 0,
     last_exception |-> None, failed_urls |-> <<>>, response |-> None,
     raised |-> None, requests |-> <<>>, answers |-> <<>>, outcome |-> None,
     cache_ops |-> <<>>]

\* django.conf.settings, as far as the views read it.
DefaultSettings ==
    [EXTERNAL_SYSTEM_URL |-> HostA, CARGA_STATUS_URL |-> HostA,
     ZAPI_WEBHOOK_URL_TOKEN |-> "secret", DELIVERY_WEBHOOK_TOKEN |-> "secret"]

\* What has happened so far, for the properties that speak of it:
\*   first      the cache entry after the first call that returned
\*   repeated   a call started after that one has returned too
\*   succeeded  the <<key, URL>> whose request was answered in the success band
\*   finished   the call that ended last: its process and how it ended
NoHistory ==
    [first |-> None, repeated |-> FALSE, succeeded |-> {}, finished |-> <<>>]

\* A worker's view frame: the request it handles (req), the locals of the
\* view, what the requests of the view were answered (forwards), whether the
\* database has refused a row of the request (refused), and the response
\* once it is sent.
IdleRequest ==
    [pc |-> "idle", view |-> "", req |-> None, token_obj |-> None,
     sanitized_carga |-> <<>>, i |-> 0, processed_count |-> 0,
     failed_count |-> 0, results |-> <<>>, forwards |-> <<>>,
     refused |-> FALSE, response |-> None]

\* No view is handling a request.
NoRequest == [p \in Procs |-> IdleRequest]

\* The tables are empty.
NoRows ==
    [MessageLog |-> <<>>, DeliveryWebhookLog |-> <<>>, ApiRequestLog |-> <<>>,
     ApiToken |-> <<>>]

Init ==
    /\ cache = [k \in {} |-> <<>>]
    /\ call = [p \in Procs |-> Idle]
    /\ health = [u \in {} |-> <<>>]
    /\ settings = DefaultSettings
    /\ hist = NoHistory
    /\ request = NoRequest
    /\ db = NoRows

Quiet == \A q \in Procs : call[q].pc = "idle"

\* Lines 131-159: parse, ValueError on an empty list, cache lookup, attempt order.
Start(p, urls_string, cache_key) ==
    /\ call[p].pc = "idle"
    /\ LET urls == parse_urls(urls_string)
           key == cache_full_key(cache_key)
           cached_url == cache_get(cache, key)
       IN  call' = [call EXCEPT ![p] =
               IF urls = <<>>
               THEN [Idle EXCEPT
                       !.pc = "raised", !.urls_string = urls_string,
                       !.cache_key = cache_key,
                       !.raised = Some([type |-> "ValueError", url |-> <<>>,
                                        status_code |-> 0, attempt |-> 0])]
               ELSE [Idle EXCEPT
                       !.pc = "loop", !.urls_string = urls_string,
                       !.cache_key = cache_key, !.urls = urls,
                       !.cached_url = cached_url,
                       !.urls_to_try = urls_to_try(urls, cached_url),
                       !.i = 1,
                       !.cache_ops = <<[op |-> "get", key |-> key,
                                        value |-> cached_url]>>]]
    /\ UNCHANGED <<cache, health>>

\* Lines 162-220: one iteration of the loop, the request and what follows it.
Attempt(p) ==
    /\ call[p].pc = "loop"
    /\ call[p].i <= Len(call[p].urls_to_try)
    /\ LET c == call[p]
           url == next_url(c, cache)
           key == cache_full_key(c.cache_key)
       IN  \E outcome \in endpoint_outcomes(url) :
             LET success == outcome.raises = "" /\ is_success(outcome.status_code)
                 ops == IF success
                        THEN success_cache_ops(key, url, c.cached_url)
                        ELSE <<>>
             IN  /\ cache' = apply_ops(cache, ops)
                 /\ call' = [call EXCEPT ![p] =
                       [c EXCEPT
                          !.pc = after_attempt(success, url, c.cached_url),
                          !.i = c.i + 1,
                          !.requests = Append(c.requests, url),
                          !.answers = Append(c.answers, InSuccessBand(outcome)),
                          !.outcome = Some(outcome),
                          !.cache_ops = c.cache_ops \o ops,
                          !.response =
                             IF success
                             THEN Some([url |-> url,
                                        status_code |-> outcome.status_code])
                             ELSE c.response,
                          !.failed_urls =
                             IF success THEN c.failed_urls
                             ELSE Append(c.failed_urls, url),
                          !.last_exception =
                             IF success THEN c.last_exception
                             ELSE failure_exception(outcome, url, c.i,
                                                    c.last_exception)]]
    /\ UNCHANGED health

\* Lines 222-239: every URL failed; clear the cache and raise.
Exhaust(p) ==
    /\ call[p].pc = "loop"
    /\ call[p].i > Len(call[p].urls_to_try)
    /\ LET c == call[p]
           ops == exhausted_cache_ops(cache_full_key(c.cache_key), c.cached_url)
       IN  /\ cache' = apply_ops(cache, ops)
           /\ call' = [call EXCEPT ![p] =
                 [c EXCEPT !.pc = "raised",
                           !.cache_ops = c.cache_ops \o ops,
                           !.raised = exhausted_exception(c.last_exception)]]
    /\ UNCHANGED health

\* The caller takes the response or the exception; the frame is gone.
Finish(p) ==
    /\ call[p].pc \in {"returned", "raised"}
    /\ call' = [call EXCEPT ![p] = Idle]
    /\ UNCHANGED <<cache, health>>

\* The entry's timeout (cache_timeout seconds after its set) elapses.
Expire(key) ==
    /\ key \in DOMAIN cache
    /\ cache' = cache_delete(cache, key)
    /\ UNCHANGED <<call, health>>

\* Calls one at a time, any configured string each, any outcome per attempt.
Next ==
    \/ \E p \in SeqProcs, s \in ConfigStrings, k \in CacheKeys :
          Quiet /\ Start(p, s, k) /\ UNCHANGED others
    \/ \E p \in SeqProcs : Attempt(p) /\ UNCHANGED others
    \/ \E p \in SeqProcs : Exhaust(p) /\ UNCHANGED others
    \/ \E p \in SeqProcs : Finish(p) /\ UNCHANGED others
    \/ \E k \in DOMAIN cache : Quiet /\ Expire(k) /\ UNCHANGED others

Spec == Init /\ [][Next]_vars

\* ------------------------------------------------------------------ claims

\* The call of p has raised the error of its exhausted loop (not ValueError).
Exhausted(p) ==
    call[p].pc = "raised" /\ call[p].raised[1].type # "ValueError"

\* The cache operations of p's call that change the store.
Writes(p) == SelectSeq(call[p].cache_ops, LAMBDA o : o.op # "get")

\* C1: when an endpoint of the attempt order has answered in the success
\* band, the call has returned the response of the first such endpoint,
\* having requested exactly the endpoints up to it in attempt order, each
\* once and in order, every earlier one having failed, and the cache entry of
\* the key holds that endpoint.
C1_FirstSuccessReturned ==
    \A p \in Procs :
        LET f == call[p]
            n == Len(f.requests)
        IN  (\E j \in 1..Len(f.answers) : f.answers[j]) =>
               /\ f.pc = "returned"
               /\ f.answers[n]
               /\ \A j \in 1..(n - 1) : ~f.answers[j]
               /\ f.requests = SubSeq(f.urls_to_try, 1, n)
               /\ f.failed_urls = SubSeq(f.urls_to_try, 1, n - 1)
               /\ f.response
                    = Some([url |-> f.urls_to_try[n],
                            status_code |-> f.outcome[1].status_code])
               /\ cache_get(cache, cache_full_key(f.cache_key))
                    = Some(f.urls_to_try[n])

\* C1 witness: two endpoints, the first timed out, the second answered 200
\* and is now the cache entry.
C1_Witness ==
    \E p \in Procs :
        /\ call[p].pc = "returned"
        /\ Len(call[p].urls_to_try) = 2
        /\ call[p].answers = <<FALSE, TRUE>>
        /\ call[p].last_exception # None
        /\ call[p].last_exception[1].type = "Timeout"
        /\ call[p].response[1].status_code = 200
        /\ call[p].cached_url = None
        /\ cache_get(cache, cache_full_key(call[p].cache_key))
             = Some(call[p].urls_to_try[2])

\* C2: the loop's error is raised only after every endpoint of the attempt
\* order has been requested and has failed, and it is the error of the last
\* one: HTTPError for an error status, Timeout for a timeout, the error
\* itself otherwise.
C2_RaisesLastError ==
    \A p \in Procs :
        Exhausted(p) =>
            LET f == call[p]
                n == Len(f.urls_to_try)
            IN  /\ f.requests = f.urls_to_try
                /\ \A j \in 1..n : ~f.answers[j]
                /\ f.raised
                     = Some([type |-> IF f.outcome[1].raises = ""
                                      THEN "HTTPError"
                                      ELSE f.outcome[1].raises,
                             url |-> f.urls_to_try[n],
                             status_code |-> f.outcome[1].status_code,
                             attempt |-> n])

\* C2 witness: [A answers 404, B answers 500] raises B's HTTP 500.
C2_Witness ==
    \E p \in Procs :
        /\ Exhausted(p)
        /\ Len(call[p].urls_to_try) = 2
        /\ call[p].urls_to_try[1] # call[p].urls_to_try[2]
        /\ call[p].raised[1].type = "HTTPError"
        /\ call[p].raised[1].status_code = 500
        /\ call[p].raised[1].url = call[p].urls_to_try[2]

\* C3: when the call raises with every endpoint failed, the entry of its key
\* is absent if one existed at lookup, member of the list or not; with no
\* entry at lookup the call issues no delete.
C3_ExhaustedClearsCache ==
    \A p \in Procs :
        Exhausted(p) =>
            LET f == call[p]
                key == cache_full_key(f.cache_key)
            IN  /\ f.cached_url # None =>
                      /\ key \notin DOMAIN cache
                      /\ Writes(p) = <<[op |-> "delete", key |-> key,
                                        value |-> None]>>
                /\ f.cached_url = None => Writes(p) = <<>>

\* C3 witness: the entry at lookup was not an endpoint of the list, every
\* endpoint failed, and the entry is gone.
C3_Witness ==
    \E p \in Procs :
        /\ Exhausted(p)
        /\ call[p].cached_url # None
        /\ call[p].cached_url[1] \notin Range(call[p].urls)
        /\ cache_full_key(call[p].cache_key) \notin DOMAIN cache

\* The call of p has looked the cache up and fixed its attempt order.
Looping(p) == call[p].pc \in {"loop", "returned"} \/ Exhausted(p)

\* The cached value of p's call is an endpoint of its parsed list.
CacheHit(p) ==
    call[p].cached_url # None /\ call[p].cached_url[1] \in Range(call[p].urls)

\* seq is the first Len(seq) entries of order.
IsPrefix(seq, order) ==
    Len(seq) <= Len(order) /\ seq = SubSeq(order, 1, Len(seq))

\* C4: when the cache held E at lookup and E is in the parsed list, the
\* attempt order is E followed by the entries other than E in their
\* configured order, and the requests follow it: the first one goes to E.
C4_CachedEndpointFirst ==
    \A p \in Procs :
        Looping(p) /\ CacheHit(p) =>
            LET f == call[p]
                E == f.cached_url[1]
            IN  /\ f.urls_to_try
                     = <<E>> \o SelectSeq(f.urls, LAMBDA u : u # E)
                /\ IsPrefix(f.requests, f.urls_to_try)
                /\ f.requests # <<>> => f.requests[1] = E

\* C4 witness: E is the last of three different configured endpoints, and
\* the three requests went to E, then the first, then the second.
C4_Witness ==
    \E p \in Procs :
        /\ CacheHit(p)
        /\ Len(call[p].urls) = 3
        /\ Cardinality(Range(call[p].urls)) = 3
        /\ call[p].cached_url[1] = call[p].urls[3]
        /\ call[p].requests
             = <<call[p].urls[3], call[p].urls[1], call[p].urls[2]>>

\* C5: when the cache held nothing at lookup, or a value that is not in the
\* parsed list, the attempt order is the configured order and the cached
\* value is never requested.
C5_StaleCacheIgnored ==
    \A p \in Procs :
        Looping(p) /\ ~CacheHit(p) =>
            LET f == call[p]
            IN  /\ f.urls_to_try = f.urls
                /\ IsPrefix(f.requests, f.urls)
                /\ f.cached_url # None =>
                      f.cached_url[1] \notin Range(f.requests)

\* C5 witness: the cached value is not in the list, and the requests have
\* gone through the two configured endpoints in order.
C5_Witness ==
    \E p \in Procs :
        /\ Looping(p)
        /\ call[p].cached_url # None
        /\ call[p].cached_url[1] \notin Range(call[p].urls)
        /\ Len(call[p].urls) = 2
        /\ call[p].urls[1] # call[p].urls[2]
        /\ call[p].requests = call[p].urls

\* C6: a call that returns the response of the endpoint that was the cached
\* value at lookup has issued no set and no delete, and the entry is as it
\* was; a call issues a set only when it returns the response of an endpoint
\* other than the value read at lookup, and then exactly that one set.
C6_NoRewriteOfCachedEndpoint ==
    \A p \in Procs :
        LET f == call[p]
            key == cache_full_key(f.cache_key)
        IN  /\ f.pc = "returned" /\ Some(f.response[1].url) = f.cached_url =>
                  /\ Writes(p) = <<>>
                  /\ cache_get(cache, key) = f.cached_url
            /\ f.pc = "returned" /\ Some(f.response[1].url) # f.cached_url =>
                  Writes(p) = <<[op |-> "set", key |-> key,
                                 value |-> Some(f.response[1].url)]>>
            /\ f.pc = "loop" => Writes(p) = <<>>

\* C6 witness: the only endpoint is the cached one and it answered 200.
C6_Witness ==
    \E p \in Procs :
        /\ call[p].pc = "returned"
        /\ Len(call[p].urls) = 1
        /\ call[p].cached_url = Some(call[p].urls[1])
        /\ call[p].response[1].url = call[p].urls[1]
        /\ call[p].response[1].status_code = 200

\* C7: no request of a call follows an answer in the success band: only the
\* latest answer of a call can be a success, and the call has then returned.
C7_ShortCircuit ==
    \A p \in Procs :
        LET f == call[p]
        IN  /\ \A j \in 1..(Len(f.answers) - 1) : ~f.answers[j]
            /\ (f.answers # <<>> /\ f.answers[Len(f.answers)]) =>
                   f.pc = "returned"

\* C7 witness: the first of three endpoints answered in the success band and
\* the call returned with the other two never requested.
C7_Witness ==
    \E p \in Procs :
        /\ call[p].pc = "returned"
        /\ Len(call[p].urls_to_try) = 3
        /\ Len(call[p].requests) = 1

\* seq names no value twice.
NoDuplicates(seq) ==
    \A i, j \in 1..Len(seq) : seq[i] = seq[j] => i = j

\* C8, as claimed: no endpoint is requested twice in a call, and an
\* exhausted call has made as many requests as the parsed list has entries,
\* for every configured list and cache content.
C8_Original ==
    \A p \in Procs :
        /\ NoDuplicates(call[p].requests)
        /\ Exhausted(p) => Len(call[p].requests) = Len(call[p].urls)

\* C8, amended: the requests of a call are a prefix of its attempt order, and
\* an exhausted call has requested each entry of the attempt order once. For a
\* parsed list that names no endpoint twice, no endpoint is requested twice
\* and exhaustion takes as many requests as the list has entries. An endpoint
\* the list names k times is requested up to k times when the cache entry is
\* absent or outside the list, and once when it is the cache entry.
C8_OneRequestPerEntry ==
    \A p \in Procs :
        LET f == call[p]
        IN  /\ IsPrefix(f.requests, f.urls_to_try)
            /\ Exhausted(p) => f.requests = f.urls_to_try
            /\ NoDuplicates(f.urls) =>
                  /\ NoDuplicates(f.requests)
                  /\ Exhausted(p) => Len(f.requests) = Len(f.urls)
            /\ ~CacheHit(p) /\ Exhausted(p) => f.requests = f.urls
            /\ CacheHit(p) /\ Exhausted(p) =>
                  /\ f.requests[1] = f.cached_url[1]
                  /\ f.cached_url[1] \notin Range(Tail(f.requests))
                  /\ Len(f.requests)
                       = 1 + Len(SelectSeq(f.urls,
                                           LAMBDA u : u # f.cached_url[1]))

\* C8 witness: three different endpoints, the last one cached; the exhausted
\* call requested each once.
C8_Witness ==
    \E p \in Procs :
        /\ Exhausted(p)
        /\ CacheHit(p)
        /\ Len(call[p].urls) = 3
        /\ NoDuplicates(call[p].urls)
        /\ Len(call[p].requests) = 3
        /\ NoDuplicates(call[p].requests)

\* s is empty or made of commas and whitespace only.
IsBlank(s) == \A i \in 1..Len(s) : s[i] \in Whitespace \cup {","}

\* C9: a call whose endpoint string is empty, whitespace, or commas and
\* whitespace only has raised ValueError, and has made no request.
C9_BlankStringIsValueError ==
    \A p \in Procs :
        call[p].pc # "idle" /\ IsBlank(call[p].urls_string) =>
            /\ call[p].pc = "raised"
            /\ call[p].raised[1].type = "ValueError"
            /\ call[p].requests = <<>>
            /\ call[p].cache_ops = <<>>

\* C9 witness: the string " , " has raised ValueError.
C9_Witness ==
    \E p \in Procs :
        /\ call[p].pc = "raised"
        /\ call[p].raised[1].type = "ValueError"
        /\ call[p].urls_string = <<" ", ",", " ">>

\* seg has an explicit scheme: a non-empty name followed by "://".
HasScheme(seg) ==
    \E i \in 2..(Len(seg) - 2) : SubSeq(seg, i, i + 2) = <<":", "/", "/">>

\* The reference parse of C10: split on commas, trim, drop the blank
\* segments, keep the order, leave a segment with a scheme as it is and put
\* http:// before a segment without one.
ReferenceParse(urls_string) ==
    LET segs == split(urls_string)
        kept == SelectSeq([i \in 1..Len(segs) |-> strip(segs[i])],
                          LAMBDA seg : seg # <<>>)
    IN  [i \in 1..Len(kept) |->
            IF HasScheme(kept[i]) THEN kept[i] ELSE HTTP \o kept[i]]

\* C10, as claimed: the parsed list of every call is the reference parse of
\* its endpoint string.
C10_Original ==
    \A p \in Procs :
        call[p].pc # "idle" =>
            call[p].urls = ReferenceParse(call[p].urls_string)

\* C11: the latest attempt of a call ended it with a response exactly when
\* it answered with a status s, 200 <= s < 400; after any other outcome (199,
\* 400, an error status, a transport error) the URL is among the failed ones
\* and the call goes on, or raises when it was the last.
C11_SuccessBand ==
    \A p \in Procs :
        LET f == call[p]
        IN  f.outcome # None =>
              LET o == f.outcome[1]
                  url == f.requests[Len(f.requests)]
                  in_band == o.raises = "" /\ 200 <= o.status_code
                                /\ o.status_code < 400
              IN  /\ f.pc = "returned" <=> in_band
                  /\ in_band =>
                        f.response = Some([url |-> url,
                                           status_code |-> o.status_code])
                  /\ ~in_band =>
                        /\ f.pc \in {"loop", "raised"}
                        /\ f.response = None
                        /\ f.failed_urls = f.requests
                        /\ f.last_exception[1].status_code = o.status_code

\* C11 witness: the first endpoint answered 400 and the second 399, whose
\* response the call returned.
C11_Witness ==
    \E p \in Procs :
        /\ call[p].pc = "returned"
        /\ Len(call[p].requests) = 2
        /\ call[p].last_exception # None
        /\ call[p].last_exception[1].status_code = 400
        /\ call[p].response[1].status_code = 399

\* ------------------------------------------- fixed lists and fixed outcomes

\* The endpoints of a fixed list: two hosts, one also written with its scheme.
FixedEndpoints == { HostA, HostB, HTTP \o HostA }

FixedStrings == Joined(FixedEndpoints, MaxEndpoints)

\* The URLs fixed lists parse to, and one that none of them names.
FixedUrls == { HTTP \o HostA, HTTP \o HostB, HTTP \o HostC }

\* An endpoint that stays as it is: it answers 200, answers 500, or times out.
FixedOutcomes ==
    { [raises |-> "", status_code |-> 200], [raises |-> "", status_code |-> 500],
      [raises |-> "Timeout", status_code |-> 0] }

MessageKey == "external_system"

\* Any entry left by earlier calls, one list, one outcome per endpoint.
InitRepeat ==
    /\ cache \in {[k \in {} |-> <<>>]}
                   \cup {[k \in {cache_full_key(MessageKey)} |-> u] : u \in FixedUrls}
    /\ call = [p \in Procs |-> Idle]
    /\ health \in [FixedUrls -> FixedOutcomes]
    /\ settings \in {[DefaultSettings EXCEPT !.EXTERNAL_SYSTEM_URL = s] :
                       s \in FixedStrings}
    /\ hist = NoHistory
    /\ request = NoRequest
    /\ db = NoRows

\* hist after a step of p's call: the entry after the first return, and
\* whether a call that started after it has returned.
RepeatHistory(p) ==
    IF call'[p].pc = "returned" /\ call[p].pc # "returned"
    THEN IF hist.first = None
         THEN [hist EXCEPT
                 !.first = Some(cache_get(cache', cache_full_key(MessageKey)))]
         ELSE [hist EXCEPT !.repeated = TRUE]
    ELSE hist

\* The same call, zapi_on_message_received's, again and again.
NextRepeat ==
    \/ \E p \in SeqProcs :
          /\ Start(p, settings.EXTERNAL_SYSTEM_URL, MessageKey)
          /\ UNCHANGED others
    \/ \E p \in SeqProcs :
          /\ Attempt(p)
          /\ hist' = RepeatHistory(p)
          /\ UNCHANGED <<settings, request, db>>
    \/ \E p \in SeqProcs : Exhaust(p) /\ UNCHANGED others
    \/ \E p \in SeqProcs : Finish(p) /\ UNCHANGED others

SpecRepeat == InitRepeat /\ [][NextRepeat]_vars

\* C13: with the list and the outcomes unchanged, once a call has returned
\* the entry of the key keeps the value it had after that call: every later
\* call finds it, returns, and issues no set and no delete.
C13_RepeatedCallKeepsCache ==
    hist.first # None =>
        /\ hist.first[1] # None
        /\ cache_get(cache, cache_full_key(MessageKey)) = hist.first[1]
        /\ \A p \in Procs :
              /\ call[p].pc # "raised"
              /\ (call[p].pc # "idle" /\ (hist.repeated \/ call[p].pc = "loop")) =>
                    /\ call[p].cached_url = hist.first[1]
                    /\ Writes(p) = <<>>

\* C13 witness: the first call wrote the entry, and a later call has
\* returned with the entry the same.
C13_Witness ==
    /\ hist.repeated
    /\ call[1].pc = "returned"
    /\ Len(call[1].urls) = 2
    /\ call[1].response[1].url = call[1].urls[2]
    /\ cache_get(cache, cache_full_key(MessageKey)) = Some(call[1].urls[2])

\* ---------------------------------------------------------------------------
\* Two calls on the same list that differ in what the cache holds
\* ---------------------------------------------------------------------------

\* The cache keys of two of the callers (lines 317 and 951).
PairKeys == [p \in Procs |-> IF p = 1 THEN "external_system" ELSE "carga_status"]

\* What one entry can hold: nothing, or any URL, a member of the list or not.
CacheContents ==
    UNION { [D -> FixedUrls] :
            D \in SUBSET { cache_full_key(PairKeys[p]) : p \in Procs } }

InitPair ==
    /\ cache \in CacheContents
    /\ call = [p \in Procs |-> Idle]
    /\ health \in [FixedUrls -> FixedOutcomes]
    /\ settings \in { [DefaultSettings EXCEPT !.EXTERNAL_SYSTEM_URL = s] :
                      s \in FixedStrings }
    /\ hist = NoHistory
    /\ request = NoRequest
    /\ db = NoRows

Ended(p) == call[p].pc \in {"returned", "raised"}

\* Process 1 calls under its key; when it has ended, process 2 calls with the
\* same string under the other key.  Both frames are kept.
NextPair ==
    \/ \E p \in Procs :
          /\ \A q \in Procs : q < p => Ended(q)
          /\ Start(p, settings.EXTERNAL_SYSTEM_URL, PairKeys[p])
          /\ UNCHANGED others
    \/ \E p \in Procs : Attempt(p) /\ UNCHANGED others
    \/ \E p \in Procs : Exhaust(p) /\ UNCHANGED others

SpecPair == InitPair /\ [][NextPair]_vars

\* C12: for one list and one outcome per endpoint, two calls that found
\* different cache contents both return or both raise, and when both raise they
\* have requested the same set of endpoints.
C12_CacheChangesOnlyOrder ==
    \A p, q \in Procs :
        (Ended(p) /\ Ended(q)) =>
            /\ call[p].pc = call[q].pc
            /\ call[p].pc = "raised" =>
                  /\ Range(call[p].requests) = Range(call[q].requests)
                  /\ Range(call[p].requests) = Range(call[p].urls)

\* Both raised on a list of two; one call found the second entry cached and
\* started with it, the other found a URL that is not in the list.
C12_Witness ==
    /\ call[1].pc = "raised" /\ call[2].pc = "raised"
    /\ Len(call[1].urls) = 2
    /\ call[1].cached_url = Some(call[1].urls[2])
    /\ call[1].requests = <<call[1].urls[2], call[1].urls[1]>>
    /\ call[2].cached_url # None
    /\ call[2].cached_url[1] \notin Range(call[2].urls)
    /\ call[2].requests = call[2].urls

\* ---------------------------------------------------------------------------
\* One call, followed to its end
\* ---------------------------------------------------------------------------

\* Outcomes around the two ends of the success band, and a transport error.
BandOutcomes ==
    {[raises |-> "", status_code |-> s] : s \in {199, 399, 400}}
        \cup {[raises |-> "Timeout", status_code |-> 0]}

InitLive ==
    /\ cache \in { [k \in {} |-> <<>>] }
                    \cup { [k \in {cache_full_key(MessageKey)} |-> u] :
                           u \in FixedUrls }
    /\ call = [p \in Procs |-> Idle]
    /\ health \in [FixedUrls -> BandOutcomes]
    /\ settings \in { [DefaultSettings EXCEPT !.EXTERNAL_SYSTEM_URL = s] :
                      s \in FixedStrings }
    /\ hist = NoHistory
    /\ request = NoRequest
    /\ db = NoRows

\* A single call; its frame stays when it has ended.
NextLive ==
    \/ \E p \in SeqProcs :
          Start(p, settings.EXTERNAL_SYSTEM_URL, MessageKey) /\ UNCHANGED others
    \/ \E p \in SeqProcs : Attempt(p) /\ UNCHANGED others
    \/ \E p \in SeqProcs : Exhaust(p) /\ UNCHANGED others

\* Every request carries timeout=timeout (line 168), so an iteration of the
\* loop that can run does run, and so does the code after the loop.
SpecLive ==
    /\ InitLive
    /\ [][NextLive]_vars
    /\ \A p \in SeqProcs :
          /\ WF_vars(Attempt(p) /\ UNCHANGED others)
          /\ WF_vars(Exhaust(p) /\ UNCHANGED others)

\* C14: a call whose parsed list has N >= 1 endpoints ends, after at most N
\* requests, either with a returned response whose status s has
\* 200 <= s < 400 and nothing raised, or with exactly one raised request error
\* and no response.
C14_Terminates ==
    \A p \in SeqProcs :
        (call[p].pc = "loop") ~>
            LET f == call[p]
            IN  /\ Len(f.requests) <= Len(f.urls)
                /\ Len(f.urls) >= 1
                /\ \/ /\ f.pc = "returned"
                      /\ Len(f.response) = 1
                      /\ 200 <= f.response[1].status_code
                      /\ f.response[1].status_code < 400
                      /\ f.raised = None
                   \/ /\ f.pc = "raised"
                      /\ Len(f.raised) = 1
                      /\ f.raised[1].type \in
                            {"HTTPError", "Timeout", "ConnectionError",
                             "RequestException"}
                      /\ f.response = None

\* C14 witness: a list of three, every one of them requested, 400 from the
\* last, and the call has raised.
C14_Witness ==
    /\ call[1].pc = "raised"
    /\ Len(call[1].urls) = 3
    /\ Len(call[1].requests) = 3
    /\ call[1].raised[1].status_code = 400

\* ---------------------------------------------------------------------------
\* Concurrent calls on one cache key
\* ---------------------------------------------------------------------------

\* The configured lists of the concurrent calls.
ConcStrings == { join(<<HostA, HostB>>), join(<<HostA, HostB, HostC>>) }

\* What a request can do here: succeed, answer an error status, or time out.
ConcOutcomes ==
    {[raises |-> "", status_code |-> s] : s \in {200, 400}}
        \cup {[raises |-> "Timeout", status_code |-> 0]}

InitConc ==
    /\ cache = [k \in {} |-> <<>>]
    /\ call = [p \in Procs |-> Idle]
    /\ health = [u \in {} |-> <<>>]
    /\ settings \in { [DefaultSettings EXCEPT !.EXTERNAL_SYSTEM_URL = s] :
                      s \in ConcStrings }
    /\ hist = NoHistory
    /\ request = NoRequest
    /\ db = NoRows

\* hist after a step of p's call: the endpoint that has just answered in the
\* success band, and the call that has just ended.
ConcHistory(p) ==
    LET f == call'[p]
        n == Len(f.requests)
        answered == n > Len(call[p].requests) /\ f.answers[n]
        ended == f.pc \in {"returned", "raised"} /\ call[p].pc # f.pc
    IN  [hist EXCEPT
           !.succeeded =
              IF answered
              THEN @ \cup {<<cache_full_key(f.cache_key), f.requests[n]>>}
              ELSE @,
           !.finished =
              IF ended THEN Some([proc |-> p, pc |-> f.pc]) ELSE @]

\* The requests of several workers run side by side on one key; every attempt's
\* outcome is free.
NextConc ==
    \/ \E p \in Procs :
          /\ Start(p, settings.EXTERNAL_SYSTEM_URL, MessageKey)
          /\ UNCHANGED others
    \/ \E p \in Procs :
          /\ Attempt(p)
          /\ call'[p].outcome[1] \in ConcOutcomes
          /\ hist' = ConcHistory(p)
          /\ UNCHANGED <<settings, request, db>>
    \/ \E p \in Procs :
          /\ Exhaust(p)
          /\ hist' = ConcHistory(p)
          /\ UNCHANGED <<settings, request, db>>
    \/ \E p \in Procs : Finish(p) /\ UNCHANGED others

SpecConc == InitConc /\ [][NextConc]_vars

\* C15: whatever other calls do to the entry after a call's lookup, the call
\* looks the cache up once, and its requests so far are, one per iteration, the
\* first entries of the order it built from that lookup.
C15_OrderFixedAtLookup ==
    \A p \in Procs :
        LET f == call[p]
        IN  f.pc \in {"loop", "returned", "raised"} =>
              /\ Len(SelectSeq(f.cache_ops, LAMBDA o : o.op = "get")) = 1
              /\ f.cache_ops[1] = [op |-> "get",
                                   key |-> "url_fallback_external_system",
                                   value |-> f.cached_url]
              /\ Len(f.requests) = f.i - 1
              /\ IsPrefix(f.requests, urls_to_try(f.urls, f.cached_url))

\* C15 witness: a call found nothing cached and another call has written the
\* list's last entry since; the call has requested the first and the second
\* entry, its own order.
C15_Witness ==
    \E p \in Procs :
        /\ call[p].pc = "loop"
        /\ call[p].cached_url = None
        /\ Len(call[p].urls) = 3
        /\ cache_get(cache, cache_full_key(MessageKey)) = Some(call[p].urls[3])
        /\ call[p].requests = <<call[p].urls[1], call[p].urls[2]>>

\* C16: from an empty cache, under every interleaving of the calls on a key,
\* the entry is absent or holds an endpoint that some attempt of some call on
\* that key found answering with a status in [200, 400).
C16_CacheHoldsSucceededEndpoint ==
    \A k \in DOMAIN cache : <<k, cache[k]>> \in hist.succeeded

\* C16 witness: two calls are running, one has failed on the first entry and
\* the entry written by the other is the second one.
C16_Witness ==
    /\ call[1].pc = "loop"
    /\ call[1].failed_urls = <<call[1].urls[1]>>
    /\ call[2].pc = "returned"
    /\ call[2].response[1].url = call[2].urls[2]
    /\ cache_get(cache, cache_full_key(MessageKey)) = Some(call[2].urls[2])

\* C17 as stated: when no call is running and the call that ended last
\* returned a response, the entry is present and holds an endpoint that
\* answered in the success band.
C17_Original ==
    (/\ \A p \in Procs : call[p].pc # "loop"
     /\ hist.finished # None
     /\ hist.finished[1].pc = "returned")
        => /\ cache_get(cache, cache_full_key(MessageKey)) # None
           /\ C16_CacheHoldsSucceededEndpoint

\* C17, amended: the step in which a call returns a response from an endpoint
\* other than the one its lookup found leaves that endpoint in the entry; the
\* step in which it returns from the endpoint its lookup found leaves the cache
\* as it is, whatever other calls have done to the entry meanwhile.
C17_ReturnWritesOnlyNewEndpoint ==
    [][\A p \in Procs :
          (call[p].pc = "loop" /\ call'[p].pc = "returned") =>
              LET f == call'[p]
                  url == f.response[1].url
              IN  IF Some(url) # f.cached_url
                  THEN cache' = [k \in DOMAIN cache \cup
                                        {"url_fallback_external_system"} |->
                                   IF k = "url_fallback_external_system"
                                   THEN url ELSE cache[k]]
                  ELSE cache' = cache]_vars

\* C17 witness: both calls found the first entry cached; one failed on every
\* entry and deleted it, then the other returned from the first entry, and the
\* cache is empty.
C17_Witness ==
    /\ call[1].pc = "raised" /\ call[2].pc = "returned"
    /\ call[1].cached_url = Some(call[1].urls[1])
    /\ call[2].cached_url = call[1].cached_url
    /\ call[2].response[1].url = call[2].urls[1]
    /\ hist.finished = Some([proc |-> 2, pc |-> "returned"])
    /\ cache_get(cache, cache_full_key(MessageKey)) = None

\* ---------------------------------------------------------------------------
\* The three callers and their cache keys
\* ---------------------------------------------------------------------------

RECURSIVE rstrip_slash(_)
\* str.rstrip("/")
rstrip_slash(s) ==
    IF s # <<>> /\ s[Len(s)] = "/"
    THEN rstrip_slash(SubSeq(s, 1, Len(s) - 1))
    ELSE s

\* ",".join([f"{url.rstrip('/')}/{sanitized_carga}" for url in
\*           base_urls.split(",")]), base_urls = carga_status_url.rstrip("/")
urls_with_carga(carga_status_url, sanitized_carga) ==
    LET base_urls == split(rstrip_slash(carga_status_url))
    IN  join([i \in 1..Len(base_urls) |->
                rstrip_slash(base_urls[i]) \o <<"/">> \o sanitized_carga])

\* cache_key of zapi_on_message_received, consulta_status_carga and
\* api_consulta_carga.
CallerKeys == {"external_system", "carga_status", "carga_status_api"}

\* Sanitized carga numbers.
CargaNumbers == { <<"1">> }

\* urls_string as the caller with this key builds it.
caller_urls_string(cache_key, sanitized_carga) ==
    IF cache_key = "external_system"
    THEN settings.EXTERNAL_SYSTEM_URL
    ELSE urls_with_carga(settings.CARGA_STATUS_URL, sanitized_carga)

InitKeys ==
    /\ cache = [k \in {} |-> <<>>]
    /\ call = [p \in Procs |-> Idle]
    /\ health = [u \in {} |-> <<>>]
    /\ settings \in { [DefaultSettings EXCEPT !.EXTERNAL_SYSTEM_URL = s,
                                              !.CARGA_STATUS_URL = t] :
                      s \in ConcStrings, t \in ConcStrings }
    /\ hist = NoHistory
    /\ request = NoRequest
    /\ db = NoRows

\* The callers call one after the other, each under its own key.
NextKeys ==
    \/ \E p \in SeqProcs, k \in CallerKeys, n \in CargaNumbers :
          Start(p, caller_urls_string(k, n), k) /\ UNCHANGED others
    \/ \E p \in SeqProcs :
          /\ Attempt(p)
          /\ call'[p].outcome[1] \in ConcOutcomes
          /\ UNCHANGED others
    \/ \E p \in SeqProcs : Exhaust(p) /\ UNCHANGED others
    \/ \E p \in SeqProcs : Finish(p) /\ UNCHANGED others

SpecKeys == InitKeys /\ [][NextKeys]_vars

\* C18: every cache operation of a call with cache key k names the entry
\* url_fallback_k, and a step of that call leaves every other entry as it was:
\* present with the same URL, or absent.
C18_OnlyOwnEntry ==
    [][\A p \in Procs :
          call'[p] # call[p] =>
              LET k == IF call'[p].pc = "idle"
                       THEN call[p].cache_key ELSE call'[p].cache_key
                  own == "url_fallback_" \o k
              IN  /\ \A i \in 1..Len(call'[p].cache_ops) :
                        call'[p].cache_ops[i].key = own
                  /\ \A e \in (DOMAIN cache \cup DOMAIN cache') \ {own} :
                        /\ e \in DOMAIN cache
                        /\ e \in DOMAIN cache'
                        /\ cache'[e] = cache[e]]_vars

\* C18 witness: the API lookup has just returned from the list's third base
\* URL and written it under its key, while the entries of message forwarding
\* and of the browser lookup hold the first and the second.
C18_Witness ==
    /\ call[1].pc = "returned"
    /\ call[1].cache_key = "carga_status_api"
    /\ Len(call[1].requests) = 3
    /\ DOMAIN cache = { "url_fallback_external_system",
                        "url_fallback_carga_status",
                        "url_fallback_carga_status_api" }
    /\ cache["url_fallback_external_system"] = HTTP \o HostA
    /\ cache["url_fallback_carga_status"] = HTTP \o HostB \o <<"/", "1">>
    /\ cache["url_fallback_carga_status_api"] = HTTP \o HostC \o <<"/", "1">>

\* ---------------------------------------------------------------------------
\* The webhook views: zapi_on_message_received and delivery_webhook_callback
\* ---------------------------------------------------------------------------

\* The longest 'statuses' list of a delivery callback.
MaxItems == 2

\* Model.objects.filter(created_at__lt=cutoff_date).delete() inside try/except:
\* the rows past the retention period go, unless the database fails.
cleanup(rows, deleted) ==
    IF deleted THEN SelectSeq(rows, LAMBDA r : ~r.old) ELSE rows

\* bool(expected) and url_token == expected
\* Faulty variant: without bool(expected), an unset token matches "".
url_token_is_valid_unset(url_token) ==
    url_token = settings.ZAPI_WEBHOOK_URL_TOKEN

url_token_is_valid(url_token) ==
    settings.ZAPI_WEBHOOK_URL_TOKEN # ""
        /\ url_token = settings.ZAPI_WEBHOOK_URL_TOKEN

delivery_token_is_valid(url_token) ==
    settings.DELIVERY_WEBHOOK_TOKEN # ""
        /\ url_token = settings.DELIVERY_WEBHOOK_TOKEN

\* A MessageLog row; by is the worker whose request created it (0: a row that
\* was there before), old says it is past the retention period.
MessageLogRow(by, old, status, status_code) ==
    [by |-> by, old |-> old, external_system_status |-> status,
     external_system_status_code |-> status_code]

\* A DeliveryWebhookLog row; item is the position of its status item in the
\* callback (0: the row of a rejected payload).
DeliveryWebhookLogRow(by, item, old, message_id, status, webhook_status, code) ==
    [by |-> by, item |-> item, old |-> old, message_id |-> message_id,
     delivery_message |-> status, webhook_status |-> webhook_status,
     internal_route_status_code |-> code]

\* JsonResponse(..., status=status); the counters are those of a delivery
\* callback's 200.
JsonResponse(status) ==
    [status |-> status, processed |-> 0, failed |-> 0, total |-> 0,
     results |-> <<>>]

UrlTokens == {"secret", "wrong", ""}

ContentTypes == {"application/json", "text/plain"}

\* The entries of 'statuses': with both fields, without message_key, without
\* status, and one that is not an object.
StatusItems ==
    { [shape |-> "dict", message_key |-> "k1", status |-> "sent"],
      [shape |-> "dict", message_key |-> "k1", status |-> "read"],
      [shape |-> "dict", message_key |-> "", status |-> "sent"],
      [shape |-> "dict", message_key |-> "k1", status |-> ""],
      [shape |-> "str", message_key |-> "", status |-> ""] }

\* Request bodies: not JSON; JSON that is not an object; an object without
\* text.message and without statuses; one whose statuses is not a list; a text
\* message; a delivery callback with a list of statuses.
Bodies ==
    { [kind |-> k, statuses |-> <<>>] :
        k \in {"not json", "not an object", "other", "statuses not a list",
               "text"} }
      \cup { [kind |-> "statuses", statuses |-> items] :
             items \in UNION { [1..n -> StatusItems] : n \in 0..MaxItems } }

\* The requests a webhook can get.  A request that fails the token or the
\* content type check is taken with one body: the body is not looked at.
WebhookRequests(view) ==
    { r \in [view : {view}, url_token : UrlTokens,
             content_type : ContentTypes, body : Bodies] :
        (r.url_token # "secret" \/ r.content_type # "application/json")
            => r.body = [kind |-> "text", statuses |-> <<>>] }

\* What the endpoints answer in the specifications of the views.
ViewOutcomes ==
    {[raises |-> "", status_code |-> s] : s \in {200, 399, 500}}
        \cup {[raises |-> t, status_code |-> 0] : t \in TransportErrors}

\* Faulty variant: the row is never written again after its creation.
save_message_log_skipped(rows, p, status, status_code) == rows

\* message_log.external_system_status = ...; message_log.save()
save_message_log(rows, p, status, status_code) ==
    [n \in 1..Len(rows) |->
        IF rows[n].by = p
        THEN [rows[n] EXCEPT !.external_system_status = status,
                             !.external_system_status_code = status_code]
        ELSE rows[n]]

\* Lines 259-296: cleanup, token, content type, JSON, and for a text message
\* the row, created as pending.
MsgReceive(p, req, deleted, created) ==
    /\ request[p].pc = "idle"
    /\ call[p].pc = "idle"
    /\ req.view = "zapi_on_message_received"
    /\ LET rows == cleanup(db.MessageLog, deleted)
           f == [IdleRequest EXCEPT !.view = req.view, !.req = Some(req)]
           status ==
              IF ~url_token_is_valid(req.url_token) THEN 401
              ELSE IF req.content_type # "application/json" THEN 415
              ELSE IF req.body.kind = "not json" THEN 400
              ELSE IF req.body.kind # "text" THEN 200
              ELSE IF ~created THEN 500
              ELSE 0
       IN  /\ request' = [request EXCEPT ![p] =
                IF status # 0
                THEN [f EXCEPT !.pc = "done", !.refused = status = 500,
                               !.response = Some(JsonResponse(status))]
                ELSE [f EXCEPT !.pc = "forward"]]
           /\ db' = [db EXCEPT !.MessageLog =
                IF status = 0
                THEN Append(rows, MessageLogRow(p, FALSE, "pending", 0))
                ELSE rows]
    /\ UNCHANGED <<cache, call, health, settings, hist>>

\* Lines 313-320: the call of try_urls_with_cache, up to its cache lookup.
MsgForward(p) ==
    /\ request[p].pc = "forward"
    /\ request[p].view = "zapi_on_message_received"
    /\ Start(p, settings.EXTERNAL_SYSTEM_URL, "external_system")
    /\ request' = [request EXCEPT ![p].pc = "forwarding"]
    /\ UNCHANGED <<settings, hist, db>>

\* Lines 322-361: the row takes the outcome of the forward and is saved; the
\* callback is answered 200.  A ValueError of the forwarder and an error of
\* save() are not caught: Django answers 500.
MsgRespond(p, saved) ==
    /\ request[p].pc = "forwarding"
    /\ request[p].view = "zapi_on_message_received"
    /\ Finish(p)
    /\ LET c == call[p]
           caught == c.pc = "returned" \/ c.raised[1].type # "ValueError"
           status ==
              IF c.pc = "returned" /\ c.response[1].status_code = 200
              THEN "success" ELSE "failed"
           status_code ==
              IF c.pc = "returned" THEN c.response[1].status_code ELSE 0
       IN  /\ request' = [request EXCEPT ![p] =
                [@ EXCEPT
                   !.pc = "done",
                   !.forwards = <<[pc |-> c.pc, response |-> c.response,
                                   raised |-> c.raised]>>,
                   !.refused = caught /\ ~saved,
                   !.response =
                      Some(JsonResponse(IF caught /\ saved THEN 200 ELSE 500))]]
           /\ db' = [db EXCEPT !.MessageLog =
                IF caught /\ saved
                THEN save_message_log(@, p, status, status_code)
                ELSE @]
    /\ UNCHANGED <<settings, hist>>

\* What requests.post to the internal route can do.
PostOutcomes ==
    {[raises |-> "", status_code |-> s] : s \in {200, 404, 500}}
        \cup {[raises |-> "Timeout", status_code |-> 0]}

\* Faulty variant: an empty list of statuses is taken as a list to process.
statuses_invalid_unless_list(body) == body.kind # "statuses"

\* statuses = payload.get("statuses", []);
\* not isinstance(statuses, list) or len(statuses) == 0
statuses_invalid(body) == body.kind # "statuses" \/ body.statuses = <<>>

\* Lines 371-461: cleanup, token, content type, JSON, the 'statuses' array.
\* A body that cannot be used gets a row, if the database takes it, and 400.
DlvReceive(p, req, deleted, created) ==
    /\ request[p].pc = "idle"
    /\ req.view = "delivery_webhook_callback"
    /\ LET rows == cleanup(db.DeliveryWebhookLog, deleted)
           f == [IdleRequest EXCEPT !.view = req.view, !.req = Some(req)]
           kind == req.body.kind
           status ==
              IF ~delivery_token_is_valid(req.url_token) THEN 401
              ELSE IF req.content_type # "application/json" THEN 415
              ELSE IF kind = "not json" THEN 400
              ELSE IF kind = "not an object" THEN 500
              ELSE IF statuses_invalid(req.body) THEN 400
              ELSE 0
           message_id == IF kind = "not json" THEN "invalid" ELSE "missing"
       IN  /\ request' = [request EXCEPT ![p] =
                IF status # 0
                THEN [f EXCEPT !.pc = "done",
                               !.refused = status = 400 /\ ~created,
                               !.response = Some(JsonResponse(status))]
                ELSE [f EXCEPT !.pc = "items", !.i = 1]]
           /\ db' = [db EXCEPT !.DeliveryWebhookLog =
                IF status = 400 /\ created
                THEN Append(rows,
                        DeliveryWebhookLogRow(p, 0, FALSE, message_id, "",
                                              "invalid_payload", 0))
                ELSE rows]
    /\ UNCHANGED <<cache, call, health, settings, hist>>

\* Faulty variant: every status from 200 up, 404 aside, counts as processed.
post_result_unbounded(outcome) ==
    IF outcome.raises # "" THEN "network_error"
    ELSE IF outcome.status_code = 404 THEN "not_found"
    ELSE IF 200 <= outcome.status_code THEN "ok"
    ELSE "forward_error"

\* The 'status' of an item's entry in results (lines 492-547): 404 first, then
\* 200 <= response.status_code < 400, then the other statuses; network_error
\* for a RequestException.
post_result(outcome) ==
    IF outcome.raises # "" THEN "network_error"
    ELSE IF outcome.status_code = 404 THEN "not_found"
    ELSE IF 200 <= outcome.status_code /\ outcome.status_code < 400 THEN "ok"
    ELSE "forward_error"

\* Lines 463-577: one iteration of `for status_item in statuses`.  created
\* and recreated say whether the database takes the row of the branch and the
\* row of the `except Exception` branch.
DlvItem(p, outcome, created, recreated) ==
    /\ request[p].pc = "items"
    /\ request[p].i <= Len(request[p].req[1].body.statuses)
    /\ LET f == request[p]
           item == f.req[1].body.statuses[f.i]
           row(webhook_status, status_code) ==
              DeliveryWebhookLogRow(p, f.i, FALSE, item.message_key,
                                    item.status, webhook_status, status_code)
           code == outcome.status_code
           webhook_status ==
              IF outcome.raises # "" THEN "forward_error"
              ELSE IF code = 404 THEN "not_found"
              ELSE IF 200 <= code /\ code < 400 THEN "success"
              ELSE "forward_error"
           result == post_result(outcome)
           skipped == item.message_key = "" \/ item.status = ""
           \* requests.post(internal_url, json=forward_payload) and its outcome
           posted == [id_mensagem |-> item.message_key,
                      retorno_envio |-> item.status,
                      raises |-> outcome.raises,
                      status_code |-> outcome.status_code]
           next == [f EXCEPT !.i = f.i + 1]
       IN  IF item.shape # "dict" \/ (~skipped /\ outcome.raises # "" /\ ~created)
           THEN \* AttributeError on the item, or the database error inside
                \* the RequestException handler: not caught, Django answers 500
                /\ request' = [request EXCEPT ![p] =
                      [f EXCEPT !.pc = "done",
                                !.refused = @ \/ item.shape = "dict",
                                !.response = Some(JsonResponse(500))]]
                /\ db' = db
           ELSE IF skipped
           THEN /\ request' = [request EXCEPT ![p] =
                      [next EXCEPT !.failed_count = @ + 1,
                                   !.forwards = Append(@, None)]]
                /\ db' = db
           ELSE IF created
           THEN /\ request' = [request EXCEPT ![p] =
                      [next EXCEPT
                         !.processed_count =
                            IF result = "ok" THEN @ + 1 ELSE @,
                         !.failed_count =
                            IF result = "ok" THEN @ ELSE @ + 1,
                         !.results =
                            Append(@, [message_key |-> item.message_key,
                                       status |-> result]),
                         !.forwards = Append(@, Some(posted))]]
                /\ db' = [db EXCEPT !.DeliveryWebhookLog =
                            Append(@, row(webhook_status, code))]
           ELSE \* the database error of a status branch, taken by
                \* `except Exception`
                /\ request' = [request EXCEPT ![p] =
                      [next EXCEPT
                         !.failed_count = @ + 1,
                         !.refused = TRUE,
                         !.results =
                            Append(@, [message_key |-> item.message_key,
                                       status |-> "error"]),
                         !.forwards = Append(@, Some(posted))]]
                /\ db' = [db EXCEPT !.DeliveryWebhookLog =
                            IF recreated
                            THEN Append(@, row("forward_error", 0))
                            ELSE @]
    /\ UNCHANGED <<cache, call, health, settings, hist>>

\* Lines 579-594: the counters and the results, with 200.
DlvRespond(p) ==
    /\ request[p].pc = "items"
    /\ request[p].i > Len(request[p].req[1].body.statuses)
    /\ request' = [request EXCEPT ![p] =
          [@ EXCEPT
             !.pc = "done",
             !.response =
                Some([status |-> 200,
                      processed |-> request[p].processed_count,
                      failed |-> request[p].failed_count,
                      total |-> Len(request[p].req[1].body.statuses),
                      results |-> request[p].results])]]
    /\ UNCHANGED <<cache, call, health, settings, hist, db>>

\* The tables before the request: empty, or with one row past the retention
\* period and one within it.
EarlierRows ==
    { NoRows,
      [NoRows EXCEPT
         !.MessageLog = << MessageLogRow(0, TRUE, "success", 200),
                           MessageLogRow(0, FALSE, "failed", 0) >>,
         !.DeliveryWebhookLog =
            << DeliveryWebhookLogRow(0, 1, TRUE, "k0", "sent", "success", 200),
               DeliveryWebhookLogRow(0, 1, FALSE, "k0", "read", "not_found",
                                     404) >>] }

\* EXTERNAL_SYSTEM_URL as deployed: unset, one endpoint, two endpoints.
WebStrings == { <<>>, HostA, join(<<HostA, HostB>>) }

\* The cache as earlier requests can have left it: no entry, or the entry of
\* cache_key remembering url (lines 182-183).
EarlierEntries(cache_key, url) ==
    { [k \in {} |-> <<>>], [k \in {cache_full_key(cache_key)} |-> url] }

InitWebhooks ==
    /\ cache \in EarlierEntries("external_system", HTTP \o HostB)
    /\ call = [p \in Procs |-> Idle]
    /\ health = [u \in {} |-> <<>>]
    /\ settings \in { [DefaultSettings EXCEPT !.EXTERNAL_SYSTEM_URL = s,
                                              !.ZAPI_WEBHOOK_URL_TOKEN = t,
                                              !.DELIVERY_WEBHOOK_TOKEN = t] :
                      s \in WebStrings, t \in {"", "secret"} }
    /\ hist = NoHistory
    /\ request = NoRequest
    /\ db \in EarlierRows

\* One callback, of either kind, handled from its arrival to its response.
NextWebhooks ==
    \/ \E p \in SeqProcs, req \in WebhookRequests("zapi_on_message_received"),
          deleted \in BOOLEAN, created \in BOOLEAN :
          MsgReceive(p, req, deleted, created)
    \/ \E p \in SeqProcs : MsgForward(p)
    \/ \E p \in SeqProcs :
          /\ Attempt(p)
          /\ call'[p].outcome[1] \in ViewOutcomes
          /\ UNCHANGED others
    \/ \E p \in SeqProcs : Exhaust(p) /\ UNCHANGED others
    \/ \E p \in SeqProcs, saved \in BOOLEAN : MsgRespond(p, saved)
    \/ \E p \in SeqProcs, req \in WebhookRequests("delivery_webhook_callback"),
          deleted \in BOOLEAN, created \in BOOLEAN :
          DlvReceive(p, req, deleted, created)
    \/ \E p \in SeqProcs, outcome \in PostOutcomes,
          created \in BOOLEAN, recreated \in BOOLEAN :
          DlvItem(p, outcome, created, recreated)
    \/ \E p \in SeqProcs : DlvRespond(p)

SpecWebhooks == InitWebhooks /\ [][NextWebhooks]_vars

\* The view of worker p has answered with this status.
Answered(p, status) ==
    /\ request[p].pc = "done"
    /\ request[p].response[1].status = status

\* The rows of a table that worker p's request created.
RowsBy(table, p) == SelectSeq(table, LAMBDA r : r.by = p)

\* The status item carries message_key and status.
Complete(item) ==
    item.shape = "dict" /\ item.message_key # "" /\ item.status # ""

\* C19 as stated: a message-received callback answered 200 has a MessageLog
\* row, and every status item of a delivery callback answered 200 has a
\* DeliveryWebhookLog row.
C19_Original ==
    \A p \in Procs :
        Answered(p, 200) =>
            IF request[p].view = "zapi_on_message_received"
            THEN RowsBy(db.MessageLog, p) # <<>>
            ELSE \A i \in 1..Len(request[p].req[1].body.statuses) :
                    \E n \in 1..Len(db.DeliveryWebhookLog) :
                        /\ db.DeliveryWebhookLog[n].by = p
                        /\ db.DeliveryWebhookLog[n].item = i

\* C19, amended: a callback answered 200 has one MessageLog row exactly when
\* it carries a text message, and the row says success when the forward
\* returned a 200 and failed otherwise.  Of a delivery callback answered 200,
\* a status item without message_key or status was not forwarded and has no
\* row; an item with both was forwarded and has at most one row, which
\* carries its message_key and status; unless its result is 'error' (the
\* insert failed) it has that row, and the row holds what the internal route
\* answered.
C19_TextAndCompleteItemsLogged ==
    \A p \in Procs :
        Answered(p, 200) =>
            LET f == request[p]
                body == f.req[1].body
            IN  IF f.view = "zapi_on_message_received"
                THEN LET rows == RowsBy(db.MessageLog, p)
                     IN  IF body.kind # "text"
                         THEN rows = <<>>
                         ELSE /\ Len(rows) = 1
                              /\ rows[1].external_system_status =
                                    IF f.forwards[1].pc = "returned"
                                       /\ f.forwards[1].response[1].status_code
                                             = 200
                                    THEN "success" ELSE "failed"
                ELSE
                  /\ Len(f.forwards) = Len(body.statuses)
                  /\ \A i \in 1..Len(body.statuses) :
                       LET item == body.statuses[i]
                           rows == SelectSeq(RowsBy(db.DeliveryWebhookLog, p),
                                             LAMBDA r : r.item = i)
                           nth == Cardinality({j \in 1..i :
                                                 Complete(body.statuses[j])})
                       IN  IF ~Complete(item)
                           THEN rows = <<>> /\ f.forwards[i] = None
                           ELSE
                             /\ f.forwards[i] # None
                             /\ Len(rows) <= 1
                             /\ \A n \in 1..Len(rows) :
                                   /\ rows[n].message_id = item.message_key
                                   /\ rows[n].delivery_message = item.status
                             /\ IF f.results[nth].status = "error"
                                THEN \A n \in 1..Len(rows) :
                                        rows[n].webhook_status = "forward_error"
                                ELSE
                                  /\ Len(rows) = 1
                                  /\ LET o == f.forwards[i][1]
                                     IN  rows[1].webhook_status =
                                            IF o.raises # "" THEN "forward_error"
                                            ELSE IF o.status_code = 404
                                            THEN "not_found"
                                            ELSE IF o.status_code \in 200..399
                                            THEN "success"
                                            ELSE "forward_error"

\* C19 witness: a delivery callback of two items was answered 200; the first
\* item has no message_key and no row, the second was answered 404 by the
\* internal route and has its not_found row.
C19_Witness ==
    /\ Answered(1, 200)
    /\ request[1].view = "delivery_webhook_callback"
    /\ Len(request[1].req[1].body.statuses) = 2
    /\ request[1].req[1].body.statuses[1].message_key = ""
    /\ request[1].forwards[1] = None
    /\ Len(RowsBy(db.DeliveryWebhookLog, 1)) = 1
    /\ RowsBy(db.DeliveryWebhookLog, 1)[1].item = 2
    /\ RowsBy(db.DeliveryWebhookLog, 1)[1].webhook_status = "not_found"

\* ---------------------------------------------------------------------------
\* The JSON API of the carga lookup: api_consulta_carga
\* ---------------------------------------------------------------------------

\* sanitized[:20]
CargaMaxLen == 20

Digits == {"0", "1", "2", "3", "4", "5", "6", "7", "8", "9"}

\* s[:n]
first_chars(s, n) == SubSeq(s, 1, IF Len(s) < n THEN Len(s) ELSE n)

\* re.sub(r"[^\d]", "", str(carga_number))[:20], "" for an empty number.
sanitize_carga_number(carga_number) ==
    first_chars(SelectSeq(carga_number, LAMBDA ch : ch \in Digits), CargaMaxLen)

\* The carga numbers of the requests: digits, no digit, digits among others.
CargaInputs == { <<"1">>, <<"x">>, <<"1", "x", "2">> }

\* Authorization headers: bearer says the header starts with "Bearer ",
\* token_value is what is left of it, stripped.
AuthHeaders ==
    { [bearer |-> FALSE, token_value |-> ""],
      [bearer |-> FALSE, token_value |-> "valid"],
      [bearer |-> TRUE, token_value |-> ""],
      [bearer |-> TRUE, token_value |-> "valid"],
      [bearer |-> TRUE, token_value |-> "revoked"],
      [bearer |-> TRUE, token_value |-> "unknown"] }

\* The ApiToken table: one active token and one revoked; last_used says the
\* token's last_used has been written since.
ApiTokens ==
    << [token |-> "valid", is_active |-> TRUE, last_used |-> FALSE],
       [token |-> "revoked", is_active |-> FALSE, last_used |-> FALSE] >>

\* _validate_api_token: the position of the active token the header names, 0
\* when the header is not a bearer header or names no active token.
validate_api_token(header, tokens) ==
    IF ~header.bearer \/ header.token_value = "" THEN 0
    ELSE IF \E n \in 1..Len(tokens) :
               tokens[n].token = header.token_value /\ tokens[n].is_active
    THEN CHOOSE n \in 1..Len(tokens) :
            tokens[n].token = header.token_value /\ tokens[n].is_active
    ELSE 0

\* An ApiRequestLog row; api_token is the token's value, "" for none.
ApiRequestLogRow(by, old, request_status, carga_number, api_token, code) ==
    [by |-> by, old |-> old, request_status |-> request_status,
     carga_number |-> carga_number, api_token |-> api_token,
     internal_system_status_code |-> code]

ApiRequests ==
    [view : {"api_consulta_carga"}, limited : BOOLEAN,
     authorization : AuthHeaders, carga_number : CargaInputs]

\* response.text of a 200: a JSON object, JSON of another type, not JSON.
ResponseTexts == {"object", "not an object", "not json"}

\* Faulty variant: the token is validated before the rate limit is looked at.
api_checks_token_first(req, tokens, carga_status_url) ==
    LET n == validate_api_token(req.authorization, tokens)
    IN  IF n = 0
        THEN [status |-> 401, row |-> "invalid_token", token |-> 0]
        ELSE IF req.limited
        THEN [status |-> 429, row |-> "rate_limited", token |-> n]
        ELSE IF sanitize_carga_number(req.carga_number) = <<>>
        THEN [status |-> 400, row |-> "invalid_input", token |-> n]
        ELSE IF carga_status_url = <<>>
        THEN [status |-> 503, row |-> "system_error", token |-> n]
        ELSE [status |-> 0, row |-> "", token |-> n]

\* The checks of lines 1067-1122 in their order: the status and the row of the
\* first one that fails (status 0 when all pass), and the position of the
\* token _validate_api_token found, 0 when it was not called or found none.
api_checks(req, tokens, carga_status_url) ==
    LET n == validate_api_token(req.authorization, tokens)
    IN  IF req.limited
        THEN [status |-> 429, row |-> "rate_limited", token |-> 0]
        ELSE IF n = 0
        THEN [status |-> 401, row |-> "invalid_token", token |-> 0]
        ELSE IF sanitize_carga_number(req.carga_number) = <<>>
        THEN [status |-> 400, row |-> "invalid_input", token |-> n]
        ELSE IF carga_status_url = <<>>
        THEN [status |-> 503, row |-> "system_error", token |-> n]
        ELSE [status |-> 0, row |-> "", token |-> n]

\* Lines 1063-1122: cleanup, rate limit, token, carga number, configuration.
\* Each rejection writes its row; when the database refuses the row the
\* exception is not caught and Django answers 500.
ApiReceive(p, req, deleted, created) ==
    /\ request[p].pc = "idle"
    /\ call[p].pc = "idle"
    /\ req.view = "api_consulta_carga"
    /\ LET rows == cleanup(db.ApiRequestLog, deleted)
           rejection == api_checks(req, db.ApiToken, settings.CARGA_STATUS_URL)
           n == rejection.token
           tokens == IF n = 0 THEN db.ApiToken
                     ELSE [db.ApiToken EXCEPT ![n].last_used = TRUE]
           token_obj == IF n = 0 THEN "" ELSE db.ApiToken[n].token
           sanitized_carga == sanitize_carga_number(req.carga_number)
           f == [IdleRequest EXCEPT !.view = req.view, !.req = Some(req)]
           carga == IF rejection.status = 503 THEN sanitized_carga
                    ELSE first_chars(req.carga_number, CargaMaxLen)
       IN  /\ request' = [request EXCEPT ![p] =
                IF rejection.status = 0
                THEN [f EXCEPT !.pc = "forward",
                               !.token_obj = Some(token_obj),
                               !.sanitized_carga = sanitized_carga]
                ELSE [f EXCEPT
                        !.pc = "done",
                        !.refused = ~created,
                        !.response =
                           Some(JsonResponse(IF created THEN rejection.status
                                             ELSE 500))]]
           /\ db' = [db EXCEPT
                !.ApiToken = tokens,
                !.ApiRequestLog =
                   IF rejection.status # 0 /\ created
                   THEN Append(rows,
                           ApiRequestLogRow(p, FALSE, rejection.row, carga,
                                            token_obj, 0))
                   ELSE rows]
    /\ UNCHANGED <<cache, call, health, settings, hist>>

\* Lines 1124-1148: the URLs with the carga number, and the call of
\* try_urls_with_cache up to its cache lookup.
ApiForward(p) ==
    /\ request[p].pc = "forward"
    /\ request[p].view = "api_consulta_carga"
    /\ Start(p, urls_with_carga(settings.CARGA_STATUS_URL,
                                request[p].sanitized_carga),
             "carga_status_api")
    /\ request' = [request EXCEPT ![p].pc = "forwarding"]
    /\ UNCHANGED <<settings, hist, db>>

\* Faulty variant: a Timeout is recorded by the ConnectionError clause.
api_path_timeout_unseen(returned, code, type, text) ==
    IF returned /\ code = 200 /\ text # "not an object"
    THEN [status |-> 200, row |-> "success"]
    ELSE IF returned /\ code # 200
    THEN [status |-> 503, row |-> "system_error"]
    ELSE IF type \in {"Timeout", "ConnectionError"}
    THEN [status |-> 503, row |-> "connection_error"]
    ELSE [status |-> 500, row |-> "system_error"]

\* The branch of lines 1150-1227 a finished call of try_urls_with_cache takes:
\* the HTTP status answered and the request_status of the row.  A 200 whose
\* text _process_carga_response cannot handle, an HTTPError, a ValueError and
\* a plain RequestException are caught by `except Exception`.
api_path(returned, code, type, text) ==
    IF returned /\ code = 200 /\ text # "not an object"
    THEN [status |-> 200, row |-> "success"]
    ELSE IF returned /\ code # 200
    THEN [status |-> 503, row |-> "system_error"]
    ELSE IF type = "Timeout"
    THEN [status |-> 503, row |-> "timeout"]
    ELSE IF type = "ConnectionError"
    THEN [status |-> 503, row |-> "connection_error"]
    ELSE [status |-> 500, row |-> "system_error"]

\* Lines 1150-1227: the response and the row of the path taken.  created says
\* whether the database takes the row of the path, recreated whether it takes
\* the row `except Exception` writes after an error inside the try block.
ApiRespond(p, text, created, recreated) ==
    /\ request[p].pc = "forwarding"
    /\ request[p].view = "api_consulta_carga"
    /\ Finish(p)
    /\ LET c == call[p]
           f == request[p]
           code == IF c.pc = "returned" THEN c.response[1].status_code ELSE 0
           type == IF c.pc = "raised" THEN c.raised[1].type ELSE ""
           \* _process_carga_response raises on JSON that is not an object
           in_try == c.pc = "returned"
           path == api_path(c.pc = "returned", code, type, text)
           row(request_status, status_code) ==
              ApiRequestLogRow(p, FALSE, request_status, f.sanitized_carga,
                               f.token_obj[1], status_code)
           fallback == in_try /\ path.status # 500 /\ ~created
       IN  /\ request' = [request EXCEPT ![p] =
                [f EXCEPT
                   !.pc = "done",
                   !.forwards = <<[pc |-> c.pc, response |-> c.response,
                                   raised |-> c.raised]>>,
                   !.refused =
                      IF in_try /\ path.status = 500 THEN ~recreated
                      ELSE ~created,
                   !.response =
                      Some(JsonResponse(IF created /\ ~fallback
                                        THEN path.status ELSE 500))]]
           /\ db' = [db EXCEPT !.ApiRequestLog =
                IF fallback
                THEN IF recreated
                     THEN Append(@, row("system_error", 0))
                     ELSE @
                ELSE IF path.status = 500
                THEN IF (IF in_try THEN recreated ELSE created)
                     THEN Append(@, row("system_error", 0))
                     ELSE @
                ELSE IF created
                THEN Append(@, row(path.row, code))
                ELSE @]
    /\ UNCHANGED <<settings, hist>>

\* CARGA_STATUS_URL as deployed: unset, one base URL, two base URLs.
InitApi ==
    /\ cache \in EarlierEntries("carga_status_api", HTTP \o HostB \o <<"/", "1">>)
    /\ call = [p \in Procs |-> Idle]
    /\ health = [u \in {} |-> <<>>]
    /\ settings \in { [DefaultSettings EXCEPT !.CARGA_STATUS_URL = s] :
                      s \in WebStrings }
    /\ hist = NoHistory
    /\ request = NoRequest
    /\ db \in { [NoRows EXCEPT !.ApiToken = ApiTokens],
                [NoRows EXCEPT
                   !.ApiToken = ApiTokens,
                   !.ApiRequestLog =
                      << ApiRequestLogRow(0, TRUE, "success", <<"1">>,
                                          "valid", 200),
                         ApiRequestLogRow(0, FALSE, "timeout", <<"1">>,
                                          "valid", 0) >>] }

\* One API request, handled from its arrival to its response.
NextApi ==
    \/ \E p \in SeqProcs, req \in ApiRequests,
          deleted \in BOOLEAN, created \in BOOLEAN :
          ApiReceive(p, req, deleted, created)
    \/ \E p \in SeqProcs : ApiForward(p)
    \/ \E p \in SeqProcs :
          /\ Attempt(p)
          /\ call'[p].outcome[1] \in ViewOutcomes
          /\ UNCHANGED others
    \/ \E p \in SeqProcs : Exhaust(p) /\ UNCHANGED others
    \/ \E p \in SeqProcs, text \in ResponseTexts,
          created \in BOOLEAN, recreated \in BOOLEAN :
          ApiRespond(p, text, created, recreated)

SpecApi == InitApi /\ [][NextApi]_vars

\* C20 as stated: an authenticated request with a valid carga number whose
\* call of try_urls_with_cache raised a request error, the row of the request
\* written, is answered 503; and a 200 is answered only after a downstream
\* 200.
C20_Original ==
    \A p \in Procs :
        (/\ request[p].pc = "done"
         /\ request[p].view = "api_consulta_carga"
         /\ request[p].forwards # <<>>
         /\ RowsBy(db.ApiRequestLog, p) # <<>>) =>
            LET fw == request[p].forwards[1]
                status == request[p].response[1].status
            IN  /\ (fw.pc = "raised" /\ fw.raised[1].type # "ValueError")
                      => status = 503
                /\ status = 200 =>
                      /\ fw.pc = "returned"
                      /\ fw.response[1].status_code = 200

\* ---------------------------------------------------------------------------
\* Delivery callbacks: rejected payloads, the order of the items, the counters
\* ---------------------------------------------------------------------------

\* The delivery callback worker p has answered passed the token and the
\* content type checks and its body was a JSON object.
DeliveryObject(p) ==
    /\ request[p].pc = "done"
    /\ request[p].view = "delivery_webhook_callback"
    /\ delivery_token_is_valid(request[p].req[1].url_token)
    /\ request[p].req[1].content_type = "application/json"
    /\ request[p].req[1].body.kind \notin {"not json", "not an object"}

C22_Original ==
    \A p \in Procs :
        (/\ DeliveryObject(p)
         /\ ~statuses_invalid(request[p].req[1].body)
         /\ ~request[p].refused) =>
            LET f == request[p]
                statuses == f.req[1].body.statuses
            IN  /\ f.response[1].status = 200
                /\ Len(f.forwards) = Len(statuses)
                /\ \A i \in 1..Len(statuses) :
                      Complete(statuses[i]) =>
                          /\ f.forwards[i] # None
                          /\ f.forwards[i][1].id_mensagem =
                                statuses[i].message_key
                          /\ f.forwards[i][1].retorno_envio =
                                statuses[i].status

\* ---------------------------------------------------------------------------
\* Two carga lookups in a row through one entry point
\* ---------------------------------------------------------------------------

\* The carga numbers looked up.
LookupNumbers == { <<"1">>, <<"2">> }

\* The cache keys of the browser form and of the JSON API.
LookupKeys == {"carga_status", "carga_status_api"}

InitLookups ==
    /\ cache = [k \in {} |-> <<>>]
    /\ call = [p \in Procs |-> Idle]
    /\ health = [u \in {} |-> <<>>]
    /\ settings \in { [DefaultSettings EXCEPT !.CARGA_STATUS_URL = s] :
                      s \in ConcStrings }
    /\ hist = NoHistory
    /\ request = NoRequest
    /\ db = NoRows

\* Worker 1 looks a carga number up; when its call has ended worker 2 looks a
\* carga number up through the same entry point.  Both frames are kept.
NextLookups ==
    \/ \E p \in Procs, k \in LookupKeys, n \in LookupNumbers :
          /\ \A q \in Procs : q < p => (Ended(q) /\ call[q].cache_key = k)
          /\ Start(p, caller_urls_string(k, n), k)
          /\ UNCHANGED others
    \/ \E p \in Procs :
          /\ Attempt(p)
          /\ call'[p].outcome[1] \in ConcOutcomes
          /\ UNCHANGED others
    \/ \E p \in Procs : Exhaust(p) /\ UNCHANGED others

SpecLookups == InitLookups /\ [][NextLookups]_vars

\* C23 as stated: when the first lookup returned a response through the base
\* URL at some position of CARGA_STATUS_URL, the first request of the next
\* lookup through the same entry point goes to the base URL at that position,
\* whatever the two carga numbers are.
C23_Original ==
    (call[1].pc = "returned" /\ call[2].requests # <<>>) =>
        \A j \in 1..Len(call[1].urls) :
            call[1].urls[j] = call[1].response[1].url =>
                call[2].requests[1] = call[2].urls[j]

\* ---------------------------------------------------------------------------
\* The loop that ends without a success
\* ---------------------------------------------------------------------------

\* C24: when the loop over a non-empty list has run out, last_exception is
\* set and is the error of the last attempt, so what is raised is never the
\* aggregate RequestException of the branch for no recorded error.
C24_AggregateUnreachable ==
    \A p \in Procs :
        LET f == call[p]
            n == Len(f.urls_to_try)
        IN  (f.pc \in {"loop", "raised"} /\ f.urls # <<>> /\ f.i > n) =>
              /\ n >= 1
              /\ f.last_exception # None
              /\ f.last_exception[1].attempt = n
              /\ f.pc = "raised" =>
                    /\ f.raised = f.last_exception
                    /\ f.raised # exhausted_exception(None)

\* C24 witness: two endpoints failed, the second by a timeout; the call has
\* raised the Timeout of its second attempt.
C24_Witness ==
    \E p \in Procs :
        /\ call[p].pc = "raised"
        /\ Len(call[p].requests) = 2
        /\ call[p].answers = <<FALSE, FALSE>>
        /\ call[p].raised[1].type = "Timeout"
        /\ call[p].raised[1].attempt = 2

\* The number of the first i status items that carry message_key and status.
CompleteUpTo(statuses, i) ==
    Cardinality({j \in 1..i : Complete(statuses[j])})

\* C25: while the items are processed each one handled so far has raised
\* exactly one of the two counters and, if it carried message_key and status,
\* has its one entry in results; in the 200 response processed + failed =
\* total = the number of items, and processed counts items whose post was
\* answered with a status s, 200 <= s < 400, s # 404.
C25_CountersAddUp ==
    \A p \in Procs :
        LET f == request[p]
            statuses == f.req[1].body.statuses
            handled == IF f.pc = "items" THEN f.i - 1 ELSE Len(statuses)
            ok == {j \in 1..handled :
                     /\ Complete(statuses[j])
                     /\ f.results[CompleteUpTo(statuses, j)].status = "ok"}
        IN  (/\ f.view = "delivery_webhook_callback"
             /\ f.pc = "items" \/ Answered(p, 200)) =>
              /\ f.processed_count + f.failed_count = handled
              /\ f.processed_count = Cardinality(ok)
              /\ Len(f.results) = CompleteUpTo(statuses, handled)
              /\ \A j \in 1..handled :
                    Complete(statuses[j]) =>
                       f.results[CompleteUpTo(statuses, j)].message_key =
                          statuses[j].message_key
              /\ \A j \in ok :
                    /\ f.forwards[j][1].raises = ""
                    /\ 200 <= f.forwards[j][1].status_code
                    /\ f.forwards[j][1].status_code < 400
                    /\ f.forwards[j][1].status_code # 404
              /\ Answered(p, 200) =>
                    /\ f.response[1].total = Len(statuses)
                    /\ f.response[1].processed = f.processed_count
                    /\ f.response[1].failed = f.failed_count
                    /\ f.response[1].processed + f.response[1].failed =
                          f.response[1].total
                    /\ f.response[1].results = f.results

\* C25 witness: of two items the first had no status and the second was
\* answered 200; the response says processed 1, failed 1, total 2, with one
\* entry in results.
C25_Witness ==
    /\ Answered(1, 200)
    /\ request[1].view = "delivery_webhook_callback"
    /\ Len(request[1].req[1].body.statuses) = 2
    /\ request[1].req[1].body.statuses[1].status = ""
    /\ request[1].response[1].processed = 1
    /\ request[1].response[1].failed = 1
    /\ request[1].response[1].total = 2
    /\ Len(request[1].response[1].results) = 1
    /\ request[1].response[1].results[1].status = "ok"

\* ---------------------------------------------------------------------------
\* The JSON API: one row per request, the order of the checks
\* ---------------------------------------------------------------------------

\* Worker p has answered a request to api_consulta_carga.
ApiDone(p) ==
    /\ request[p].pc = "done"
    /\ request[p].view = "api_consulta_carga"

\* The Authorization header of the request names an active token of the table.
NamesActiveToken(header) ==
    /\ header.bearer
    /\ \E n \in 1..Len(db.ApiToken) :
          /\ db.ApiToken[n].token = header.token_value
          /\ db.ApiToken[n].is_active

\* C26: a request to api_consulta_carga never leaves two ApiRequestLog rows,
\* and when the database refused none of its inserts it leaves exactly one,
\* whose request_status is that of the path taken: rate_limited (429),
\* invalid_token (401), invalid_input (400), system_error (503, URL not
\* configured), success (downstream 200, answered 200), system_error
\* (downstream status other than 200), timeout, connection_error, and
\* system_error for every other error.
C26_OneRowPerRequest ==
    \A p \in Procs :
        ApiDone(p) =>
          LET f == request[p]
              req == f.req[1]
              rows == RowsBy(db.ApiRequestLog, p)
              status == f.response[1].status
              fw == f.forwards[1]
              expected ==
                 IF req.limited THEN "rate_limited"
                 ELSE IF ~NamesActiveToken(req.authorization)
                 THEN "invalid_token"
                 ELSE IF \A n \in 1..Len(req.carga_number) :
                            req.carga_number[n] \notin Digits
                 THEN "invalid_input"
                 ELSE IF settings.CARGA_STATUS_URL = <<>> THEN "system_error"
                 ELSE IF fw.pc = "returned"
                 THEN IF fw.response[1].status_code # 200 THEN "system_error"
                      ELSE IF status = 200 THEN "success"
                      ELSE "system_error"
                 ELSE IF fw.raised[1].type = "Timeout" THEN "timeout"
                 ELSE IF fw.raised[1].type = "ConnectionError"
                 THEN "connection_error"
                 ELSE "system_error"
          IN  /\ Len(rows) <= 1
              /\ ~f.refused =>
                    /\ Len(rows) = 1
                    /\ rows[1].request_status = expected
                    /\ (expected = "rate_limited") = (status = 429)
                    /\ (expected = "invalid_token") = (status = 401)
                    /\ (expected = "invalid_input") = (status = 400)
                    /\ (expected = "success") = (status = 200)
                    /\ expected \in {"timeout", "connection_error"}
                          => status = 503

\* C26 witness: the downstream system timed out on every endpoint and the one
\* row of the request says timeout.
C26_Witness ==
    /\ ApiDone(1)
    /\ ~request[1].refused
    /\ request[1].forwards # <<>>
    /\ request[1].forwards[1].pc = "raised"
    /\ request[1].forwards[1].raised[1].type = "Timeout"
    /\ Len(RowsBy(db.ApiRequestLog, 1)) = 1
    /\ RowsBy(db.ApiRequestLog, 1)[1].request_status = "timeout"
    /\ request[1].response[1].status = 503

\* The carga number of the request has at least one digit.
HasDigit(carga_number) ==
    \E n \in 1..Len(carga_number) : carga_number[n] \in Digits

\* C27: the step that receives a request to api_consulta_carga tests the rate
\* limit, then the bearer token, then the carga number, then the URL
\* configuration: the first test that fails decides the answer, a rate-limited
\* request leaves every token's last_used as it was, a rate-limited request
\* and one without an active token leave the cache and the forwarder alone,
\* and the forwarder is started only for a request that passed all four.
C27_ChecksInOrder ==
    [][\A p \in Procs :
         LET f == request'[p]
             req == f.req[1]
             named == NamesActiveToken(req.authorization)
             rejected(status) ==
                /\ f.pc = "done"
                /\ f.response[1].status \in {status, 500}
                /\ ~f.refused => f.response[1].status = status
                /\ f.forwards = <<>>
                /\ UNCHANGED <<cache, call, health>>
         IN  /\ (/\ request[p].pc = "idle"
                 /\ f.pc # "idle"
                 /\ f.view = "api_consulta_carga") =>
                   /\ req.limited =>
                         /\ rejected(429)
                         /\ db'.ApiToken = db.ApiToken
                   /\ (~req.limited /\ ~named) =>
                         /\ rejected(401)
                         /\ db'.ApiToken = db.ApiToken
                   /\ (~req.limited /\ named) =>
                         \E n \in 1..Len(db.ApiToken) :
                            /\ db.ApiToken[n].token =
                                  req.authorization.token_value
                            /\ db'.ApiToken =
                                  [db.ApiToken EXCEPT ![n].last_used = TRUE]
                   /\ (~req.limited /\ named /\ ~HasDigit(req.carga_number))
                         => rejected(400)
                   /\ (/\ ~req.limited
                       /\ named
                       /\ HasDigit(req.carga_number)
                       /\ settings.CARGA_STATUS_URL = <<>>) => rejected(503)
                   /\ (/\ ~req.limited
                       /\ named
                       /\ HasDigit(req.carga_number)
                       /\ settings.CARGA_STATUS_URL # <<>>) =>
                         /\ f.pc = "forward"
                         /\ UNCHANGED <<cache, call, health>>
             /\ (/\ request[p].view = "api_consulta_carga"
                 /\ call[p].pc = "idle"
                 /\ call'[p].pc # "idle") =>
                   /\ request[p].pc = "forward"
                   /\ ~request[p].req[1].limited
                   /\ NamesActiveToken(request[p].req[1].authorization)
                   /\ HasDigit(request[p].req[1].carga_number)
                   /\ settings.CARGA_STATUS_URL # <<>>]_vars

\* C27 witness: a rate-limited request carrying the active token was
\* answered 429 with the token's last_used not written, the cache entry of an
\* earlier request still in place and nothing sent downstream.
C27_Witness ==
    /\ ApiDone(1)
    /\ request[1].req[1].limited
    /\ request[1].req[1].authorization =
          [bearer |-> TRUE, token_value |-> "valid"]
    /\ request[1].response[1].status = 429
    /\ db.ApiToken = ApiTokens
    /\ request[1].forwards = <<>>
    /\ call[1] = Idle
    /\ cache_full_key("carga_status_api") \in DOMAIN cache

\* ---------------------------------------------------------------------------
\* The webhooks: rejected tokens, the status of a MessageLog row
\* ---------------------------------------------------------------------------

\* The token the view of frame f expects is unset, or is not the one of the
\* request's URL.
BadToken(f) ==
    LET expected == IF f.view = "zapi_on_message_received"
                    THEN settings.ZAPI_WEBHOOK_URL_TOKEN
                    ELSE settings.DELIVERY_WEBHOOK_TOKEN
    IN  expected = "" \/ f.req[1].url_token # expected

\* Worker p takes up a webhook request in this step.
WebhookArrives(p) ==
    /\ request[p].pc = "idle"
    /\ request'[p].pc # "idle"
    /\ request'[p].view \in {"zapi_on_message_received",
                             "delivery_webhook_callback"}

\* The step leaves the forwarder, the cache and the tables alone, except that
\* rows older than the retention may have been deleted when clean says so.
OnlyCleansUp(p, clean) ==
    LET expired(rows) == SelectSeq(rows, LAMBDA r : ~r.old)
        mine == IF request'[p].view = "zapi_on_message_received"
                THEN "MessageLog" ELSE "DeliveryWebhookLog"
    IN  /\ request'[p].forwards = <<>>
        /\ UNCHANGED <<cache, call, health>>
        /\ \A table \in DOMAIN db :
              \/ db'[table] = db[table]
              \/ clean /\ table = mine /\ db'[table] = expired(db[table])

TextMessageHandled(p) ==
    /\ request[p].pc = "done"
    /\ request[p].view = "zapi_on_message_received"
    /\ request[p].forwards # <<>>
    /\ ~request[p].refused

\* C29 as stated: every MessageLog row holds success, failed or pending, a row
\* is pending while its forward runs, and once the view has finished with a
\* text message, whatever the forwarder did (response, request error,
\* ValueError of an empty EXTERNAL_SYSTEM_URL), its row says success or failed.
C29_Original ==
    /\ \A n \in 1..Len(db.MessageLog) :
          db.MessageLog[n].external_system_status \in
             {"success", "failed", "pending"}
    /\ \A p \in Procs :
          /\ (/\ request[p].view = "zapi_on_message_received"
              /\ request[p].pc \in {"forward", "forwarding"}) =>
                /\ Len(RowsBy(db.MessageLog, p)) = 1
                /\ RowsBy(db.MessageLog, p)[1].external_system_status =
                      "pending"
          /\ TextMessageHandled(p) =>
                /\ Len(RowsBy(db.MessageLog, p)) = 1
                /\ RowsBy(db.MessageLog, p)[1].external_system_status \in
                      {"success", "failed"}

\* C30 as stated: once the view has finished with a text message, its row
\* says success exactly when try_urls_with_cache returned a response (an
\* endpoint answered with a status s, 200 <= s < 400, and is the one the cache
\* remembers), and failed exactly when it raised.
C30_Original ==
    \A p \in Procs :
        TextMessageHandled(p) =>
           LET row == RowsBy(db.MessageLog, p)[1]
               fw == request[p].forwards[1]
               key == cache_full_key("external_system")
           IN  /\ (row.external_system_status = "success") =
                     (fw.pc = "returned")
               /\ (row.external_system_status = "failed") = (fw.pc = "raised")
               /\ fw.pc = "returned" =>
                     /\ 200 <= fw.response[1].status_code
                     /\ fw.response[1].status_code < 400
                     /\ key \in DOMAIN cache
                     /\ cache[key] = fw.response[1].url

====
